---- MODULE Spec2Model ----
(***************************************************************************)
(* Model of src/main.rs of why-crystals: the rich text tree and its        *)
(* flattening into tiles, the screen grid and its drawing, the character   *)
(* sprite sheet addressing and the colour-key transform of a surface.      *)
(***************************************************************************)
EXTENDS Integers, Sequences, FiniteSets, TLC

VARIABLES
    stack,      \* RichText values alive in the expression being evaluated
    terms,      \* per stack entry: the operands chained by `+` to build it
    last,       \* name of the RichText operation that ran last
    out,        \* the Vec<ScreenTile> returned by the last call of tiles()
    pc,         \* where main() is: "first", "second" (its calls of darw_text), "loop"
    grid_wh,    \* ScreenGrid.grid_wh
    tile_wh,    \* ScreenGrid.tile_wh
    grid_tiles, \* ScreenGrid.tiles
    panic,      \* <<>>, or <<xy>> once tile_mut(xy) indexed out of the Vec's range
    call,       \* <<>>, or <<text, dst_xy>>: the arguments of the last darw_text
    canvas,     \* the calls made on the canvas during the last frame
    sheet_state,    \* "none", "ready", or "panic" after a failed assertion
    sheet_grid_wh,  \* CharSpriteSheet.grid_wh
    sheet_tile_wh,  \* CharSpriteSheet.tile_wh
    rect_of,        \* <<>>, or <<char_index, rect>>: the last char_index_to_rect
    surface,        \* the surface given to map_surface_pixels, then its result
    passes          \* how many times map_surface_pixels has run on the surface

textVars == <<stack, terms, last, out>>
gridVars == <<pc, grid_wh, tile_wh, grid_tiles, panic, call, canvas>>
sheetVars == <<sheet_state, sheet_grid_wh, sheet_tile_wh, rect_of>>
surfaceVars == <<surface, passes>>
vars == <<textVars, gridVars, sheetVars, surfaceVars>>

----------------------------------------------------------------------------
(* Bounds of the model.                                                    *)

MaxNodes == 4       \* nodes of the RichText values an operation is given
MaxStack == 2       \* RichText values alive at once
MaxDepth == 5       \* modifiers wrapped around one Text that is alone
MaxGridW == 5       \* columns of the screen grid
MaxGridH == 3       \* rows of the screen grid
MaxSurfaceW == 4    \* width of the sprite sheet image, in pixels
MaxSurfaceH == 4    \* height of the sprite sheet image, in pixels
MaxTile == 2        \* width and height of a sprite, in pixels
MaxCharIndex == 16  \* sprite indices asked of the sheet
MaxPasses == 2      \* runs of map_surface_pixels over one surface

----------------------------------------------------------------------------
(* Colours and tiles.                                                      *)

Color(r, g, b, a) == [r |-> r, g |-> g, b |-> b, a |-> a]
RGB(r, g, b) == Color(r, g, b, 255)

COLOR_WHITE == Color(180, 220, 200, 255)
COLOR_BG == Color(5, 30, 25, 255)

\* The colours main() gives to its texts.
COLOR_RED == RGB(240, 40, 5)
COLOR_BLUE == RGB(10, 40, 150)
InputColors == {COLOR_RED, COLOR_BLUE}

ScreenTile(sprite, fg_color, bg_color) ==
    [sprite |-> sprite, fg_color |-> fg_color, bg_color |-> bg_color]

ScreenTile_new == ScreenTile(0, COLOR_WHITE, COLOR_BG)

from_char_zero(character) == ScreenTile(0, COLOR_WHITE, COLOR_BG)

\* A character is its code point; `character as SpriteIndex` keeps it.
from_char(character) == ScreenTile(character, COLOR_WHITE, COLOR_BG)

----------------------------------------------------------------------------
(* The rich text tree.                                                     *)

FgColor(c) == [kind |-> "FgColor", color |-> c]
BgColor(c) == [kind |-> "BgColor", color |-> c]

Text(string) == [kind |-> "Text", string |-> string]
Modifier(modifier, sub) == [kind |-> "Modifier", modifier |-> modifier, sub |-> sub]
Sequence(vec) == [kind |-> "Sequence", vec |-> vec]

\* The string literals given to RichText::from: "", "ab" and "cd".
InputStrings == {<<>>, <<97, 98>>, <<99, 100>>}

From(string) == Text(string)

fg_color(self, color) == Modifier(FgColor(color), self)

bg_color(self, color) == Modifier(BgColor(color), self)

add_nested(self, rhs) == Sequence(<<self, rhs>>)

\* impl Add: a Sequence on the left takes rhs as one more element.
add(self, rhs) ==
    IF self.kind = "Sequence"
    THEN Sequence(Append(self.vec, rhs))
    ELSE Sequence(<<self, rhs>>)

\* #[derive(Clone)]: a structural copy of the tree.
RECURSIVE Clone(_)
Clone(t) ==
    CASE t.kind = "Text" -> Text([i \in 1..Len(t.string) |-> t.string[i]])
      [] t.kind = "Modifier" -> Modifier([kind |-> t.modifier.kind, color |-> t.modifier.color],
                                         Clone(t.sub))
      [] t.kind = "Sequence" -> Sequence([i \in 1..Len(t.vec) |-> Clone(t.vec[i])])

add_assign_lost(self, rhs) ==
    IF self.kind = "Sequence"
    THEN Sequence(Append(self.vec, rhs))
    ELSE Sequence(<<rhs>>)

\* impl AddAssign: the new value of *self.
add_assign(self, rhs) ==
    IF self.kind = "Sequence"
    THEN Sequence(Append(self.vec, rhs))
    ELSE Sequence(<<Clone(self), rhs>>)

----------------------------------------------------------------------------
(* RichText::tiles.                                                        *)

\* The loop over modifiers.iter() in the closure: each one overwrites its colour.
RECURSIVE apply_from(_, _, _)
apply_from(tile, modifiers, i) ==
    IF i > Len(modifiers) THEN tile
    ELSE LET modifier == modifiers[i]
             next == IF modifier.kind = "BgColor"
                     THEN [tile EXCEPT !.bg_color = modifier.color]
                     ELSE [tile EXCEPT !.fg_color = modifier.color]
         IN apply_from(next, modifiers, i + 1)

apply_modifiers_first(tile, modifiers) ==
    apply_from(tile, [i \in 1..Len(modifiers) |-> modifiers[Len(modifiers) + 1 - i]], 1)

apply_modifiers(tile, modifiers) == apply_from(tile, modifiers, 1)

\* string.chars().map(..).collect()
text_tiles(string, modifiers) ==
    [i \in 1..Len(string) |-> apply_modifiers(from_char(string[i]), modifiers)]

modifiers_pop_none(modifiers) == modifiers

\* modifiers.pop(): nothing happens on an empty Vec.
modifiers_pop(modifiers) ==
    IF Len(modifiers) = 0 THEN modifiers ELSE SubSeq(modifiers, 1, Len(modifiers) - 1)

\* tiles_rec works on the two Vecs it is given by &mut: it returns both.
RECURSIVE tiles_rec(_, _, _)
RECURSIVE tiles_rec_vec(_, _, _, _)

tiles_rec(formatted_text, tiles, modifiers) ==
    CASE formatted_text.kind = "Text" ->
            [tiles |-> tiles \o text_tiles(formatted_text.string, modifiers),
             modifiers |-> modifiers]
      [] formatted_text.kind = "Modifier" ->
            LET r == tiles_rec(formatted_text.sub, tiles,
                               Append(modifiers, formatted_text.modifier))
            IN [tiles |-> r.tiles, modifiers |-> modifiers_pop(r.modifiers)]
      [] formatted_text.kind = "Sequence" ->
            tiles_rec_vec(formatted_text.vec, 1, tiles, modifiers)

\* for sub_formatted_text in vec.iter()
tiles_rec_vec(vec, i, tiles, modifiers) ==
    IF i > Len(vec) THEN [tiles |-> tiles, modifiers |-> modifiers]
    ELSE LET r == tiles_rec(vec[i], tiles, modifiers)
         IN tiles_rec_vec(vec, i + 1, r.tiles, r.modifiers)

tiles(self) == tiles_rec(self, <<>>, <<>>).tiles

----------------------------------------------------------------------------
(* The RichText operations, on the values of an expression.                *)

RECURSIVE Size(_)
RECURSIVE SizeAll(_)
Size(t) ==
    CASE t.kind = "Text" -> 1
      [] t.kind = "Modifier" -> 1 + Size(t.sub)
      [] t.kind = "Sequence" -> 1 + SizeAll(t.vec)
SizeAll(vec) == IF vec = <<>> THEN 0 ELSE Size(Head(vec)) + SizeAll(Tail(vec))

\* t is a Text under n modifiers and nothing else
RECURSIVE IsChain(_, _)
IsChain(t, n) ==
    CASE t.kind = "Text" -> n = 0
      [] t.kind = "Modifier" -> n > 0 /\ IsChain(t.sub, n - 1)
      [] t.kind = "Sequence" -> FALSE

\* The values the model lets an operation make; `+` and `+=` work on any two
\* values alive, and their result has at most one node more.
Fits(s) ==
    \/ SizeAll(s) <= MaxNodes
    \/ Len(s) = 1 /\ \E n \in 0..MaxDepth : IsChain(s[1], n)

Top == stack[Len(stack)]
Under == stack[Len(stack) - 1]
Push(s, v) == Append(s, v)
SetTop(s, v) == [s EXCEPT ![Len(s)] = v]
Pop2Push(s, v) == Append(SubSeq(s, 1, Len(s) - 2), v)

\* The parts of the program a specification leaves out have not started.
NoText == stack = <<>> /\ terms = <<>> /\ last = "none" /\ out = <<>>
NoGrid ==
    /\ pc = "none"
    /\ grid_wh = <<0, 0>>
    /\ tile_wh = <<0, 0>>
    /\ grid_tiles = <<>>
    /\ panic = <<>>
    /\ call = <<>>
    /\ canvas = <<>>
NoSheet ==
    /\ sheet_state = "none"
    /\ sheet_grid_wh = <<0, 0>>
    /\ sheet_tile_wh = <<0, 0>>
    /\ rect_of = <<>>
NoSurface == surface = <<>> /\ passes = 0

InitText == NoText /\ NoGrid /\ NoSheet /\ NoSurface

\* RichText::from(string)
DoFrom ==
    \E string \in InputStrings :
        /\ Len(stack) < MaxStack
        /\ Fits(Push(stack, From(string)))
        /\ stack' = Push(stack, From(string))
        /\ terms' = Push(terms, <<From(string)>>)
        /\ last' = "from"
        /\ out' = <<>>
    /\ UNCHANGED <<gridVars, sheetVars, surfaceVars>>
        /\ UNCHANGED <<gridVars, sheetVars, surfaceVars>>

\* RichText::Sequence(Vec::new())
DoSequence ==
    /\ Len(stack) < MaxStack
    /\ Fits(Push(stack, Sequence(<<>>)))
    /\ stack' = Push(stack, Sequence(<<>>))
    /\ terms' = Push(terms, <<Sequence(<<>>)>>)
    /\ last' = "sequence"
    /\ out' = <<>>
    /\ UNCHANGED <<gridVars, sheetVars, surfaceVars>>

DoFgColor ==
    \E color \in InputColors :
        /\ Len(stack) >= 1
        /\ Fits(SetTop(stack, fg_color(Top, color)))
        /\ stack' = SetTop(stack, fg_color(Top, color))
        /\ terms' = SetTop(terms, <<fg_color(Top, color)>>)
        /\ last' = "fg_color"
        /\ out' = <<>>
    /\ UNCHANGED <<gridVars, sheetVars, surfaceVars>>
        /\ UNCHANGED <<gridVars, sheetVars, surfaceVars>>

DoBgColor ==
    \E color \in InputColors :
        /\ Len(stack) >= 1
        /\ Fits(SetTop(stack, bg_color(Top, color)))
        /\ stack' = SetTop(stack, bg_color(Top, color))
        /\ terms' = SetTop(terms, <<bg_color(Top, color)>>)
        /\ last' = "bg_color"
        /\ out' = <<>>
    /\ UNCHANGED <<gridVars, sheetVars, surfaceVars>>
        /\ UNCHANGED <<gridVars, sheetVars, surfaceVars>>

\* lhs + rhs, the two topmost values
DoAdd ==
    /\ Len(stack) >= 2
    /\ stack' = Pop2Push(stack, add(Under, Top))
    /\ terms' = Pop2Push(terms, Append(terms[Len(terms) - 1], Top))
    /\ last' = "add"
    /\ out' = <<>>
    /\ UNCHANGED <<gridVars, sheetVars, surfaceVars>>

\* target += rhs, the two topmost values
DoAddAssign ==
    /\ Len(stack) >= 2
    /\ stack' = Pop2Push(stack, add_assign(Under, Top))
    /\ terms' = Pop2Push(terms, <<add_assign(Under, Top)>>)
    /\ last' = "add_assign"
    /\ out' = <<>>
    /\ UNCHANGED <<gridVars, sheetVars, surfaceVars>>

\* text.tiles() on the topmost value
DoTiles ==
    /\ Len(stack) >= 1
    /\ last # "tiles"
    /\ out' = tiles(Top)
    /\ last' = "tiles"
    /\ UNCHANGED <<stack, terms, gridVars, sheetVars, surfaceVars>>

NextText ==
    \/ DoFrom
    \/ DoSequence
    \/ DoFgColor
    \/ DoBgColor
    \/ DoAdd
    \/ DoAddAssign
    \/ DoTiles

SpecText == InitText /\ [][NextText]_vars

----------------------------------------------------------------------------
(* Properties of the rich text operations.                                 *)

Concat(s, t) == s \o t

\* The characters of the Text leaves, depth first and left to right.
RECURSIVE LeafChars(_)
RECURSIVE LeafCharsAll(_)
LeafChars(t) ==
    CASE t.kind = "Text" -> t.string
      [] t.kind = "Modifier" -> LeafChars(t.sub)
      [] t.kind = "Sequence" -> LeafCharsAll(t.vec)
LeafCharsAll(vec) ==
    IF vec = <<>> THEN <<>> ELSE Concat(LeafChars(Head(vec)), LeafCharsAll(Tail(vec)))

\* C1: tiles() returns one tile per character of the Text leaves of the tree,
\* and the glyph indices are the code points of these characters in depth-first,
\* left-to-right leaf order.
C1_TilesAreLeafChars ==
    last = "tiles" =>
        /\ Len(out) = Len(LeafChars(Top))
        /\ \A i \in 1..Len(out) : out[i].sprite = LeafChars(Top)[i]

\* A Text of two characters under five modifiers has been flattened.
C1_Witness ==
    /\ last = "tiles"
    /\ IsChain(Top, 5)
    /\ Len(out) = 2
    /\ out[1].sprite = 97 /\ out[2].sprite = 98

\* The colours of each character: those of the innermost FgColor and BgColor
\* modifiers above its leaf, fg and bg being the colours met so far on the way down.
RECURSIVE Resolved(_, _, _)
RECURSIVE ResolvedAll(_, _, _)
Resolved(t, fg, bg) ==
    CASE t.kind = "Text" -> [i \in 1..Len(t.string) |-> [fg |-> fg, bg |-> bg]]
      [] t.kind = "Modifier" ->
            IF t.modifier.kind = "FgColor"
            THEN Resolved(t.sub, t.modifier.color, bg)
            ELSE Resolved(t.sub, fg, t.modifier.color)
      [] t.kind = "Sequence" -> ResolvedAll(t.vec, fg, bg)
ResolvedAll(vec, fg, bg) ==
    IF vec = <<>> THEN <<>>
    ELSE Concat(Resolved(Head(vec), fg, bg), ResolvedAll(Tail(vec), fg, bg))

\* C2: every tile of tiles() has the colour of the innermost FgColor modifier
\* above its leaf as foreground, or the default foreground when there is none,
\* and likewise for the background; a modifier colours no tile outside its subtree.
C2_InnermostModifierWins ==
    last = "tiles" =>
        LET want == Resolved(Top, COLOR_WHITE, COLOR_BG)
        IN /\ Len(out) = Len(want)
           /\ \A i \in 1..Len(out) :
                /\ out[i].fg_color = want[i].fg
                /\ out[i].bg_color = want[i].bg

\* Sequence([Text("ab").fg(C1), Text("cd")]) has been flattened: "cd" has the defaults.
C2_Witness ==
    /\ last = "tiles"
    /\ Top = Sequence(<<Modifier(FgColor(COLOR_RED), Text(<<97, 98>>)), Text(<<99, 100>>)>>)
    /\ Len(out) = 4
    /\ out[2].fg_color = COLOR_RED
    /\ out[3].fg_color = COLOR_WHITE /\ out[3].bg_color = COLOR_BG

\* C4 as stated: (A + B) + C is Sequence([A, B, C]) for all A, B and C.
C4_AlwaysThreeElements ==
    \A i \in 1..Len(stack) :
        Len(terms[i]) = 3 => stack[i] = Sequence(terms[i])

\* C4, amended: (A + B) + C is Sequence([A, B, C]) when A is a Text or a Modifier;
\* when A is a Sequence it is A's elements followed by B and C; it is never
\* Sequence([Sequence([A, B]), C]).
C4_ChainFlattens ==
    \A i \in 1..Len(stack) :
        Len(terms[i]) = 3 =>
            LET A == terms[i][1]
                B == terms[i][2]
                C == terms[i][3]
            IN /\ A.kind # "Sequence" => stack[i] = Sequence(<<A, B, C>>)
               /\ A.kind = "Sequence" => stack[i] = Sequence(A.vec \o <<B, C>>)
               /\ stack[i] # Sequence(<<Sequence(<<A, B>>), C>>)

\* (A + B) + C has been evaluated with a Text as A and a Sequence as B.
C4_Witness ==
    /\ last = "add"
    /\ Len(terms[Len(terms)]) = 3
    /\ terms[Len(terms)][1].kind = "Text"
    /\ terms[Len(terms)][2].kind = "Sequence"
    /\ Len(Top.vec) = 3

\* C8: after `target += rhs` the target is combine(old target, rhs): rhs is the
\* last element when the old target is a Sequence, and otherwise the target is
\* Sequence([old target, rhs]).
C8_AddAssignIsAdd ==
    [][last' = "add_assign" =>
        LET target == Under
            rhs == Top
            new == stack'[Len(stack')]
        IN /\ new = add(target, rhs)
           /\ target.kind = "Sequence" => new = Sequence(Append(target.vec, rhs))
           /\ target.kind # "Sequence" => new = Sequence(<<target, rhs>>)
           /\ stack' = Pop2Push(stack, new)]_vars

\* `+=` has turned a Modifier into a Sequence of two elements.
C8_Witness ==
    /\ last = "add_assign"
    /\ Top.kind = "Sequence"
    /\ Len(Top.vec) = 2
    /\ Top.vec[1].kind = "Modifier"

----------------------------------------------------------------------------
(* map_surface_pixels and the colour key.                                  *)

\* Where each channel sits in the u32 of a pixel: RGBA8888, and ABGR8888, a
\* format of the same size that convert_format may give instead.
RGBA8888 == [r |-> 24, g |-> 16, b |-> 8, a |-> 0]
ABGR8888 == [r |-> 0, g |-> 8, b |-> 16, a |-> 24]
Formats == {RGBA8888, ABGR8888}

\* A u32 is kept as its four bytes, the lowest first: byte n holds bits 8n .. 8n+7.
\* Color::from_u32 and Color::to_u32 for a format of 8 bits a channel: a shift
\* by format.c and a mask of 8 bits select byte format.c / 8.
from_u32(format, pixel) ==
    Color(pixel[format.r \div 8 + 1], pixel[format.g \div 8 + 1],
          pixel[format.b \div 8 + 1], pixel[format.a \div 8 + 1])
to_u32(format, color) ==
    [n \in 1..4 |->
        CASE format.r = 8 * (n - 1) -> color.r
          [] format.g = 8 * (n - 1) -> color.g
          [] format.b = 8 * (n - 1) -> color.b
          [] format.a = 8 * (n - 1) -> color.a]

pink_and_black_to_opaque(color) ==
    IF (color.r = 255 /\ color.g = 0 /\ color.b = 255)
        \/ (color.r = 0 /\ color.g = 0 /\ color.b = 0)
    THEN Color(0, 0, 0, 255)
    ELSE color

\* The closure of from_filepath.
pink_and_black_to_transparent(color) ==
    IF (color.r = 255 /\ color.g = 0 /\ color.b = 255)
        \/ (color.r = 0 /\ color.g = 0 /\ color.b = 0)
    THEN Color(0, 0, 0, 0)
    ELSE color

\* *pixel, the u32 at bytes index .. index + 3 of the pixels.
read_u32(pixels, index) == [n \in 1..4 |-> pixels[index + n]]
write_u32(pixels, index, value) ==
    [pixels EXCEPT ![index + 1] = value[1], ![index + 2] = value[2],
                   ![index + 3] = value[3], ![index + 4] = value[4]]

\* The two loops of map_surface_pixels, from pixel (x, y) on, with the closure
\* of from_filepath as f.
RECURSIVE map_pixels_from(_, _, _, _)
map_pixels_from(s, pixels, x, y) ==
    IF y >= s.h THEN pixels
    ELSE IF x >= s.w THEN map_pixels_from(s, pixels, 0, y + 1)
    ELSE LET index == y * s.pitch + x * 4
             old_color == from_u32(s.format, read_u32(pixels, index))
             new_color == pink_and_black_to_transparent(old_color)
         IN map_pixels_from(s, write_u32(pixels, index, to_u32(s.format, new_color)),
                            x + 1, y)

map_surface_pixels(s) == [s EXCEPT !.pixels = map_pixels_from(s, s.pixels, 0, 0)]

\* The colour of pixel (x, y) of a surface.
PixelColor(s, x, y) == from_u32(s.format, read_u32(s.pixels, y * s.pitch + x * 4))

\* Colours of the images given: the two keys with several alphas, near misses
\* of the keys and an ordinary colour.
Palette ==
    << Color(255, 0, 255, 255), Color(12, 34, 56, 255), Color(0, 0, 0, 255),
       Color(255, 0, 254, 255), Color(255, 0, 255, 7), Color(0, 0, 1, 0),
       Color(0, 0, 0, 0) >>

\* An image of w x h pixels going through the palette from its k-th colour, rows
\* being pad bytes longer than their pixels.
RawSurface(w, h, pad, format, k) ==
    LET pitch == w * 4 + pad
        colour(x, y) == Palette[((y * w + x + k) % Len(Palette)) + 1]
        byte(i) ==
            LET y == i \div pitch
                x == (i % pitch) \div 4
                n == (i % pitch) % 4
            IN IF x >= w THEN 0
               ELSE to_u32(format, colour(x, y))[n + 1]
    IN [w |-> w, h |-> h, pitch |-> pitch, format |-> format,
        pixels |-> [i \in 1..(pitch * h) |-> byte(i - 1)]]

----------------------------------------------------------------------------
(* CharSpriteSheet.                                                        *)

\* Rect::new
Rect(x, y, w, h) == [x |-> x, y |-> y, w |-> w, h |-> h]

\* from_texture: <<>> when an assertion fails (or a tile size is 0), else grid_wh
from_texture(texture_wh, tile)  ==
    IF tile[1] = 0 \/ tile[2] = 0 THEN <<>>
    ELSE IF texture_wh[1] % tile[1] # 0 \/ texture_wh[2] % tile[2] # 0 THEN <<>>
    ELSE <<texture_wh[1] \div tile[1], texture_wh[2] \div tile[2]>>

char_index_to_rect_row_major(grid, tile, char_index) ==
    Rect((char_index % grid[1]) * tile[1], (char_index \div grid[1]) * tile[2],
         tile[1], tile[2])

char_index_to_rect_transposed(grid, tile, char_index) ==
    Rect((char_index \div grid[2]) * tile[1], (char_index % grid[1]) * tile[2],
         tile[1], tile[2])

\* char_index_to_rect of a sheet of grid_wh = grid and tile_wh = tile
char_index_to_rect(grid, tile, char_index) ==
    LET grid_xy == <<char_index % grid[1], char_index \div grid[2]>>
        xy == <<grid_xy[1] * tile[1], grid_xy[2] * tile[2]>>
    IN Rect(xy[1], xy[2], tile[1], tile[2])

InitSheet ==
    /\ NoText /\ NoGrid /\ NoSheet
    /\ passes = 0
    /\ \E w \in 1..MaxSurfaceW, h \in 1..MaxSurfaceH, pad \in {0, 4},
          format \in Formats, k \in 0..(Len(Palette) - 1) :
            surface = RawSurface(w, h, pad, format, k)

\* map_surface_pixels(&surface, pink_and_black_to_transparent), on its own result
\* after the first time
MapSurfacePixels ==
    /\ sheet_state = "none"
    /\ passes < MaxPasses
    /\ surface' = map_surface_pixels(surface)
    /\ passes' = passes + 1
    /\ UNCHANGED <<textVars, gridVars, sheetVars>>

\* The end of from_filepath: the texture of the surface goes to from_texture.
FromTexture ==
    \E tw \in 0..MaxTile, th \in 0..MaxTile :
        LET grid == from_texture(<<surface.w, surface.h>>, <<tw, th>>)
        IN /\ sheet_state = "none"
           /\ passes = 1
           /\ IF grid = <<>>
              THEN /\ sheet_state' = "panic"
                   /\ UNCHANGED <<sheet_grid_wh, sheet_tile_wh>>
              ELSE /\ sheet_state' = "ready"
                   /\ sheet_grid_wh' = grid
                   /\ sheet_tile_wh' = <<tw, th>>
           /\ UNCHANGED <<rect_of, textVars, gridVars, surfaceVars>>

CharIndexToRect ==
    \E char_index \in 0..MaxCharIndex :
        /\ sheet_state = "ready"
        /\ rect_of' = <<char_index,
                        char_index_to_rect(sheet_grid_wh, sheet_tile_wh, char_index)>>
        /\ UNCHANGED <<sheet_state, sheet_grid_wh, sheet_tile_wh,
                       textVars, gridVars, surfaceVars>>

NextSheet ==
    \/ MapSurfacePixels
    \/ FromTexture
    \/ CharIndexToRect

SpecSheet == InitSheet /\ [][NextSheet]_vars

----------------------------------------------------------------------------
(* Properties of the sprite sheet and of the colour key.                   *)

\* C6: on a sheet of N x N sprites, the rectangle of sprite i < N * N has its
\* top-left corner at ((i mod N) * tile_width, (i div N) * tile_height) and the
\* size of a tile, lies inside the image, and is the rectangle of no other
\* sprite below N * N.
C6_SquareSheetRects ==
    (sheet_state = "ready" /\ rect_of # <<>> /\ sheet_grid_wh[1] = sheet_grid_wh[2]
        /\ rect_of[1] < sheet_grid_wh[1] * sheet_grid_wh[1]) =>
        LET N == sheet_grid_wh[1]
            i == rect_of[1]
            rect == rect_of[2]
        IN /\ rect = Rect((i % N) * sheet_tile_wh[1], (i \div N) * sheet_tile_wh[2],
                          sheet_tile_wh[1], sheet_tile_wh[2])
           /\ rect.x >= 0 /\ rect.x + rect.w <= surface.w
           /\ rect.y >= 0 /\ rect.y + rect.h <= surface.h
           /\ \A j \in 0..(N * N - 1) :
                j # i => char_index_to_rect(sheet_grid_wh, sheet_tile_wh, j) # rect

\* The last sprite of a 2 x 2 sheet of 2 x 1 tiles has been asked for.
C6_Witness ==
    /\ sheet_state = "ready"
    /\ sheet_grid_wh = <<2, 2>>
    /\ sheet_tile_wh = <<2, 1>>
    /\ rect_of = <<3, Rect(2, 1, 2, 1)>>

\* C7: map_surface_pixels with the colour key turns every pixel that is
\* (255,0,255,a) or (0,0,0,a) into a pixel of alpha 0 and keeps every other pixel,
\* and a surface that went through it once is not changed by going through again.
C7_ColorKeyIdempotent ==
    [][passes' = passes + 1 =>
        /\ \A x \in 0..(surface.w - 1), y \in 0..(surface.h - 1) :
            LET old == PixelColor(surface, x, y)
                new == PixelColor(surface', x, y)
                key == \/ (old.r = 255 /\ old.g = 0 /\ old.b = 255)
                       \/ (old.r = 0 /\ old.g = 0 /\ old.b = 0)
            IN /\ key => new.a = 0
               /\ ~key => new = old
               /\ pink_and_black_to_transparent(new) = new
        /\ passes >= 1 => surface' = surface]_vars

\* A surface with a key pixel and an ordinary one went through twice.
C7_Witness ==
    /\ passes = 2
    /\ surface.w >= 2
    /\ PixelColor(surface, 0, 0) = Color(0, 0, 0, 0)
    /\ PixelColor(surface, 1, 0) = Color(12, 34, 56, 255)

\* C10: char_index_to_rect takes the column as char_index mod grid_width and the
\* row as char_index div grid_height, and on every sheet with grid_width #
\* grid_height some index below grid_width * grid_height gets a row that is not
\* its row-major row, char_index div grid_width.
C10_RowWrongUnlessSquare ==
    sheet_state = "ready" =>
        LET gw == sheet_grid_wh[1]
            gh == sheet_grid_wh[2]
            row(i) == char_index_to_rect(sheet_grid_wh, sheet_tile_wh, i).y
                        \div sheet_tile_wh[2]
        IN /\ rect_of # <<>> =>
                /\ rect_of[2].x = (rect_of[1] % gw) * sheet_tile_wh[1]
                /\ rect_of[2].y = (rect_of[1] \div gh) * sheet_tile_wh[2]
           /\ gw # gh => \E i \in 0..(gw * gh - 1) : row(i) # i \div gw

\* On a sheet of 3 x 2 sprites, sprite 2 was asked for: it is the last of row 0
\* and its rectangle is on row 1.
C10_Witness ==
    /\ sheet_state = "ready"
    /\ sheet_grid_wh = <<3, 2>>
    /\ rect_of # <<>>
    /\ rect_of[1] = 2
    /\ rect_of[2].y \div sheet_tile_wh[2] = 1

----------------------------------------------------------------------------
(* ScreenGrid.                                                             *)

\* ScreenGrid::new: grid_wh.0 * grid_wh.1 tiles, all ScreenTile::new()
ScreenGrid_new(grid) == [i \in 1..(grid[1] * grid[2]) |-> ScreenTile_new]

tile_index_row_major(grid, xy) == xy[2] * grid[1] + xy[1]

tile_index_width_stride(grid, xy) == xy[1] * grid[1] + xy[2]

\* tile_index: the place of tile xy in the Vec, counted from 0
tile_index(grid, xy) == xy[1] * grid[2] + xy[2]

\* *self.tile(xy), for an index inside the Vec
tile(vec, grid, xy) == vec[tile_index(grid, xy) + 1]

grid_coords_to_rect(tile_size, xy) ==
    Rect(xy[1] * tile_size[1], xy[2] * tile_size[2], tile_size[1], tile_size[2])

\* The loop of darw_text from the i-th tile on: tile_mut panics on an index
\* outside the Vec, and the tiles written before stay written.
RECURSIVE darw_text_from(_, _, _, _, _)
darw_text_from(vec, grid, formatted, dst_xy, i) ==
    IF i >= Len(formatted) THEN [tiles |-> vec, panic |-> <<>>]
    ELSE LET xy == <<dst_xy[1] + i, dst_xy[2]>>
             index == tile_index(grid, xy)
         IN IF index >= Len(vec)
            THEN [tiles |-> vec, panic |-> <<xy>>]
            ELSE darw_text_from([vec EXCEPT ![index + 1] = formatted[i + 1]],
                                grid, formatted, dst_xy, i + 1)

darw_text(vec, grid, text, dst_xy) == darw_text_from(vec, grid, tiles(text), dst_xy, 0)

\* draw_char_to_canvas: set_color_mod, then the copy of the sprite
draw_char_to_canvas(sgrid, stile, char_index, color, dst) ==
    [op |-> "copy", color_mod |-> <<color.r, color.g, color.b>>,
     src |-> char_index_to_rect(sgrid, stile, char_index), dst |-> dst]

draw_tile_sprite_first(vec, grid, tile_size, sgrid, stile, xy) ==
    LET dst == grid_coords_to_rect(tile_size, xy)
    IN << draw_char_to_canvas(sgrid, stile, tile(vec, grid, xy).sprite,
                              tile(vec, grid, xy).fg_color, dst),
          [op |-> "fill_rect", color |-> tile(vec, grid, xy).bg_color, rect |-> dst] >>

\* The body of the loops of draw_to_canvas: the calls made for tile xy
draw_tile(vec, grid, tile_size, sgrid, stile, xy) ==
    LET dst == grid_coords_to_rect(tile_size, xy)
    IN << [op |-> "fill_rect", color |-> tile(vec, grid, xy).bg_color, rect |-> dst],
          draw_char_to_canvas(sgrid, stile, tile(vec, grid, xy).sprite,
                              tile(vec, grid, xy).fg_color, dst) >>

\* The loops of draw_to_canvas from tile (x, y) on: rows outside, columns inside
RECURSIVE draw_from(_, _, _, _, _, _, _)
draw_from(vec, grid, tile_size, sgrid, stile, x, y) ==
    IF y >= grid[2] THEN <<>>
    ELSE IF x >= grid[1] THEN draw_from(vec, grid, tile_size, sgrid, stile, 0, y + 1)
    ELSE draw_tile(vec, grid, tile_size, sgrid, stile, <<x, y>>)
            \o draw_from(vec, grid, tile_size, sgrid, stile, x + 1, y)

draw_to_canvas(vec, grid, tile_size, sgrid, stile) ==
    draw_from(vec, grid, tile_size, sgrid, stile, 0, 0)

\* The texts given to darw_text: "", "ab", the text of two colours
\* "ab" in red + "cd" on blue, and this text + "ab" on red.
TextTwoColours ==
    add(fg_color(From(<<97, 98>>), COLOR_RED), bg_color(From(<<99, 100>>), COLOR_BLUE))
GridTexts ==
    { From(<<>>), From(<<97, 98>>), TextTwoColours,
      add(TextTwoColours, bg_color(From(<<97, 98>>), COLOR_RED)) }

\* Sizes of a tile on the screen: the one of main() and one that is not square.
TileSizes == {<<16, 16>>, <<2, 3>>}

\* The sheet of main(): sprites of 8 x 8 on an image of 16 x 16 sprites.
InitGrid ==
    /\ NoText /\ NoSurface
    /\ sheet_state = "ready"
    /\ sheet_grid_wh = from_texture(<<128, 128>>, <<8, 8>>)
    /\ sheet_tile_wh = <<8, 8>>
    /\ rect_of = <<>>
    /\ pc = "first"
    /\ grid_wh \in (1..MaxGridW) \X (1..MaxGridH)
    /\ tile_wh \in TileSizes
    /\ grid_tiles = ScreenGrid_new(grid_wh)
    /\ panic = <<>>
    /\ call = <<>>
    /\ canvas = <<>>

\* screen_grid.darw_text(text, dst_xy): main() calls it twice before its loop
DarwText ==
    \E text \in GridTexts, x \in 0..grid_wh[1], y \in 0..grid_wh[2] :
        LET r == darw_text(grid_tiles, grid_wh, text, <<x, y>>)
        IN /\ pc \in {"first", "second"}
           /\ grid_tiles' = r.tiles
           /\ panic' = r.panic
           /\ call' = <<text, <<x, y>>>>
           /\ pc' = IF r.panic # <<>> THEN "panicked"
                    ELSE IF pc = "first" THEN "second" ELSE "loop"
           /\ UNCHANGED <<grid_wh, tile_wh, canvas, textVars, sheetVars, surfaceVars>>

\* One turn of the loop of main(): clear, then draw_to_canvas
Frame ==
    /\ pc = "loop"
    /\ canvas' = <<[op |-> "clear", color |-> COLOR_BG]>>
                    \o draw_to_canvas(grid_tiles, grid_wh, tile_wh,
                                      sheet_grid_wh, sheet_tile_wh)
    /\ UNCHANGED <<pc, grid_wh, tile_wh, grid_tiles, panic, call,
                   textVars, sheetVars, surfaceVars>>

NextGrid ==
    \/ DarwText
    \/ Frame

SpecGrid == InitGrid /\ [][NextGrid]_vars

----------------------------------------------------------------------------
(* Properties of the screen grid.                                          *)

Cells == (0..(grid_wh[1] - 1)) \X (0..(grid_wh[2] - 1))

\* What tile(xy) reads in the Vec: <<the tile>>, or <<>> when the index is
\* outside the Vec and the read panics.
Read(vec, xy) ==
    IF tile_index(grid_wh, xy) < Len(vec) THEN <<tile(vec, grid_wh, xy)>> ELSE <<>>

\* C3: when dest_y < grid_height and dest_x + len(tiles) <= grid_width, darw_text
\* leaves tile i of the text in cell (dest_x + i, dest_y), as tile() reads it, and
\* changes no other cell; the text of two colours written at (1, 2) gives the
\* cells (1,2) .. (4,2) the sprites a, b, c, d, the first two in red on the
\* default background and the last two in the default foreground on blue.
C3_WriteTextCells ==
    [][pc' # pc =>
        LET text == call'[1]
            dst == call'[2]
            formatted == tiles(text)
        IN (dst[2] < grid_wh[2] /\ dst[1] + Len(formatted) <= grid_wh[1]) =>
            /\ panic' = <<>>
            /\ \A xy \in Cells :
                IF xy[2] = dst[2] /\ xy[1] >= dst[1] /\ xy[1] < dst[1] + Len(formatted)
                THEN Read(grid_tiles', xy) = <<formatted[xy[1] - dst[1] + 1]>>
                ELSE Read(grid_tiles', xy) = Read(grid_tiles, xy)
            /\ (text = TextTwoColours /\ dst = <<1, 2>>) =>
                /\ Read(grid_tiles', <<1, 2>>)
                    = <<ScreenTile(97, RGB(240, 40, 5), Color(5, 30, 25, 255))>>
                /\ Read(grid_tiles', <<2, 2>>)
                    = <<ScreenTile(98, RGB(240, 40, 5), Color(5, 30, 25, 255))>>
                /\ Read(grid_tiles', <<3, 2>>)
                    = <<ScreenTile(99, Color(180, 220, 200, 255), RGB(10, 40, 150))>>
                /\ Read(grid_tiles', <<4, 2>>)
                    = <<ScreenTile(100, Color(180, 220, 200, 255), RGB(10, 40, 150))>>]_vars

\* The text of two colours has been written at (1, 2) of a grid of 5 x 3 whose
\* cell (0, 0) an earlier call had already written.
C3_Witness ==
    /\ pc = "loop"
    /\ grid_wh = <<5, 3>>
    /\ call = <<TextTwoColours, <<1, 2>>>>
    /\ tile(grid_tiles, grid_wh, <<0, 0>>).sprite = 97
    /\ tile(grid_tiles, grid_wh, <<1, 2>>).sprite = 97
    /\ tile(grid_tiles, grid_wh, <<4, 2>>).sprite = 100

Overlap(a, b) ==
    /\ a.x < b.x + b.w /\ b.x < a.x + a.w
    /\ a.y < b.y + b.h /\ b.y < a.y + a.h

\* C5: a draw of the grid makes, for every cell, exactly one fill_rect and exactly
\* one copy with the rectangle of the cell, the fill before the copy, and no
\* fill_rect made after the copy of a cell overlaps the rectangle of the cell.
C5_FillBeforeCopy ==
    canvas # <<>> =>
        \A xy \in Cells :
            LET dst == grid_coords_to_rect(tile_wh, xy)
                fills == {i \in 1..Len(canvas) :
                            canvas[i].op = "fill_rect" /\ canvas[i].rect = dst}
                copies == {i \in 1..Len(canvas) :
                            canvas[i].op = "copy" /\ canvas[i].dst = dst}
            IN /\ Cardinality(fills) = 1
               /\ Cardinality(copies) = 1
               /\ \A i \in fills, j \in copies :
                    /\ i < j
                    /\ \A k \in (j + 1)..Len(canvas) :
                        canvas[k].op = "fill_rect" => ~Overlap(canvas[k].rect, dst)

\* A grid of 5 x 2 whose cell (2, 0) was written on blue has been drawn.
C5_Witness ==
    /\ canvas # <<>>
    /\ grid_wh = <<5, 2>>
    /\ tile_wh = <<2, 3>>
    /\ Len(canvas) = 21
    /\ canvas[6] = [op |-> "fill_rect", color |-> COLOR_BLUE, rect |-> Rect(4, 0, 2, 3)]
    /\ canvas[7].op = "copy" /\ canvas[7].dst = Rect(4, 0, 2, 3)

\* C9: when dest_x <= grid_width, dest_y < grid_height and the text has more
\* tiles than grid_width - dest_x, darw_text panics on the access of column
\* grid_width of row dest_y, having overwritten the cells of row dest_y from
\* column dest_x to the last one and no other cell, and the Vec still holds
\* grid_width * grid_height tiles.
C9_OverflowPanics ==
    [][pc' # pc =>
        LET text == call'[1]
            dst == call'[2]
            formatted == tiles(text)
        IN (dst[1] <= grid_wh[1] /\ dst[2] < grid_wh[2]
                /\ Len(formatted) > grid_wh[1] - dst[1]) =>
            /\ panic' = << <<grid_wh[1], dst[2]>> >>
            /\ \A xy \in Cells :
                IF xy[2] = dst[2] /\ xy[1] >= dst[1]
                THEN Read(grid_tiles', xy) = <<formatted[xy[1] - dst[1] + 1]>>
                ELSE Read(grid_tiles', xy) = Read(grid_tiles, xy)
            /\ Len(grid_tiles') = grid_wh[1] * grid_wh[2]]_vars

\* The text of two colours was written at (3, 0) of a grid of 5 x 3: "ab" is in
\* the last two cells of row 0 and the call panicked at column 5.
C9_Witness ==
    /\ pc = "panicked"
    /\ grid_wh = <<5, 3>>
    /\ call = <<TextTwoColours, <<3, 0>>>>
    /\ panic = << <<5, 0>> >>
    /\ tile(grid_tiles, grid_wh, <<4, 0>>).sprite = 98
    /\ tile(grid_tiles, grid_wh, <<0, 1>>) = ScreenTile_new

====
